---- MODULE Spec2Model ----
(***************************************************************************)
(* EncryptEC2 (ec2.py): replace the unencrypted EBS volumes of one EC2    *)
(* instance by encrypted copies.  The state is the provider's inventory   *)
(* (the instance, its volumes, the snapshots) and the fields and locals   *)
(* of one EncryptEC2 object running __init__ and then start_encryption.   *)
(* Each action is one remote call or one poll of a waiter; the answer of  *)
(* the provider (an error, the state a poll observes) is its input.       *)
(***************************************************************************)
EXTENDS Integers, Sequences, FiniteSets, TLC

VARIABLES
    ec2_instance,        \* the provider's record of the instance
    ec2_volumes,         \* VolumeId -> the provider's record of the volume
    ec2_snapshots,       \* SnapshotId -> the provider's record of the snapshot
    key,                 \* self.key
    pre_result,          \* what pre_checks() returned: "True", "False", "None"
    pre_ebs,             \* pre_checks: what its get_ebs_list() call returned
    pre_checks_passed,   \* self._pre_checks_passed
    ec2_details,         \* self._ec2_details
    pc,                  \* the statement the run is at
    volume_ids,          \* start_encryption: volume_ids
    availability_zone,   \* start_encryption: availability_zone
    volumes,             \* detach_volume: volumes
    snapshots,           \* create_snapshots: created_snapshots
    encrypted_volumes,   \* create_volume: created_volumes
    idx,                 \* position of the running for loop in its list
    response,            \* id returned by the last create_snapshot / create_volume
    attempts,            \* polls the running waiter made without success
    error,               \* the exception that ended the run
    calls,               \* the mutating calls issued so far, in order
    initial              \* the instance and the volumes as they were before the run

vars == <<ec2_instance, ec2_volumes, ec2_snapshots, key, pre_result, pre_ebs,
          pre_checks_passed, ec2_details, pc, volume_ids, availability_zone,
          volumes, snapshots, encrypted_volumes, idx, response, attempts,
          error, calls, initial>>

provider == <<ec2_instance, ec2_volumes, ec2_snapshots>>
locals == <<volume_ids, availability_zone, volumes, snapshots, encrypted_volumes,
            idx, response, attempts>>
object == <<key, pre_result, pre_ebs, pre_checks_passed, ec2_details>>

---------------------------------------------------------------------------
(* Bounds and constants *)

\* Device slots of the instance; each may hold a volume.
MaxVols == 2

\* self._max_attempts
max_attempts == 60

instance_id == "i-1"

\* Strings the code looks into (startswith) are sequences of characters.
KeyDeviceName == <<"d","e","v","i","c","e","-","n","a","m","e">>
KeyVolumeType == <<"v","o","l","u","m","e","-","t","y","p","e">>
KeyName == <<"N","a","m","e">>
KeyAwsCfn == <<"a","w","s",":","c","f","n">>
KeyAw == <<"a","w">>

InstanceTypes ==
    { <<"t","2",".","m","i","c","r","o">>,
      <<"t","1",".","m","i","c","r","o">>,
      <<"m","1",".","s","m","a","l","l">>,
      <<"m","2",".","x","l","a","r","g","e">>,
      <<"c","1",".","m","e","d","i","u","m">> }

Keys == {"alias/aws/ebs", "alias/app"}

\* Availability zones the instance (and so its volumes) may be placed in.
Zones == {"us-east-1a", "us-east-1b"}

DevicePaths == <<"/dev/sda1", "/dev/sdf", "/dev/sdg", "/dev/sdh">>

\* What a device slot holds before the run.
VolumeChoices == {"absent", "encrypted", "gp2", "io1"}

\* Error codes of a ClientError.
ErrorCodes == {"InvalidInstanceID.Malformed", "RequestLimitExceeded"}

Tag(k, v) == [Key |-> k, Value |-> v]

InitialTags(choice) ==
    CASE choice = "encrypted" -> <<Tag(KeyName, "db")>>
      [] choice = "gp2" -> <<Tag(KeyAwsCfn, "stack"), Tag(KeyName, "web")>>
      [] OTHER -> <<Tag(KeyDeviceName, "xvdz"), Tag(KeyAw, "1"), Tag(KeyVolumeType, "st1")>>

VolId(n) == <<"vol", n>>
SnapId(n) == <<"snap", n>>

Attachment(device) == [Device |-> device, InstanceId |-> instance_id, State |-> "attached"]

OriginalVolume(i, choice, zone) ==
    [VolumeId |-> VolId(i),
     Encrypted |-> (choice = "encrypted"),
     KmsKeyId |-> IF choice = "encrypted" THEN "alias/aws/ebs" ELSE "",
     SnapshotId |-> <<>>,
     VolumeType |-> IF choice = "io1" THEN "io1" ELSE "gp2",
     AvailabilityZone |-> zone,
     Tags |-> InitialTags(choice),
     State |-> "in-use",
     Attachments |-> <<Attachment(DevicePaths[i])>>]

Mapping(device, volume_id) == [DeviceName |-> device, Ebs |-> [VolumeId |-> volume_id]]

---------------------------------------------------------------------------
(* Pure helpers *)

\* str.startswith(prefix)
StartsWith(s, prefix) ==
    /\ Len(s) >= Len(prefix)
    /\ SubSeq(s, 1, Len(prefix)) = prefix

\* [F(x) for x in s] is written [i \in 1..Len(s) |-> F(s[i])] throughout.

\* for tag in tags: if tag['Key'] == k: value = tag['Value']   (starting from '')
TagValue(tags, k) ==
    LET hits == {i \in 1..Len(tags) : tags[i].Key = k}
    IN IF hits = {} THEN ""
       ELSE tags[CHOOSE i \in hits : \A j \in hits : j <= i].Value

\* The provider's create_tags: a tag replaces the one of the same key.
PutTags(tags, new) ==
    SelectSeq(tags, LAMBDA t : \A j \in 1..Len(new) : new[j].Key # t.Key) \o new

Call(op, res, arg) == [op |-> op, res |-> res, arg |-> arg]

CallsOf(op) == SelectSeq(calls, LAMBDA c : c.op = op)

---------------------------------------------------------------------------
(* EncryptEC2: read-only helpers *)

\* Variant of get_ebs_list that forgets the Encrypted test.
get_ebs_list_unfiltered ==
    LET mappings == ec2_instance.BlockDeviceMappings
    IN [i \in 1..Len(mappings) |-> ec2_volumes[mappings[i].Ebs.VolumeId]]

\* get_ebs_list: the provider's records of the attached volumes that are
\* not encrypted, in the order of BlockDeviceMappings.
get_ebs_list ==
    LET mappings == ec2_instance.BlockDeviceMappings
        attached == [i \in 1..Len(mappings) |-> ec2_volumes[mappings[i].Ebs.VolumeId]]
    IN SelectSeq(attached, LAMBDA volume : ~volume.Encrypted)

\* instance_type.startswith(('c1', 'm1', 'm2', 't1'))
UnsupportedType(instance_type) ==
    \E prefix \in {<<"c","1">>, <<"m","1">>, <<"m","2">>, <<"t","1">>} :
        StartsWith(instance_type, prefix)

\* The except clause of pre_checks: False for a malformed id, otherwise the
\* error is printed and the function ends without a return statement.
pre_checks_except(code) ==
    IF code = "InvalidInstanceID.Malformed" THEN "False" ELSE "None"

\* pre_checks.  errAt says which describe call raises a ClientError ("ebs":
\* inside get_ebs_list, "type": the describe_instances of the type check),
\* code is its error code.
pre_checks(errAt, code) ==
    IF errAt = "ebs" THEN pre_checks_except(code)
    ELSE IF get_ebs_list = <<>> THEN "False"
    ELSE IF errAt = "type" THEN pre_checks_except(code)
    ELSE IF UnsupportedType(ec2_instance.InstanceType) THEN "False"
    ELSE "True"

\* Variant of Truthy that takes everything but False for a pass.
Truthy_not_false(value) == value # "False"

\* if self.pre_checks(): the truth value Python gives the returned object.
Truthy(value) == value = "True"

\* get_az
get_az == ec2_details.Placement.AvailabilityZone

\* Variant of final_tags that copies every tag.
final_tags_unfiltered(tags) == tags

\* create_snapshots: the tags of the volume whose key does not start with 'aws'.
final_tags(tags) ==
    SelectSeq(tags, LAMBDA tag : ~StartsWith(tag.Key, <<"a","w","s">>))

\* Variant of detach_tags that records the volume id where the device belongs.
detach_tags_wrong_value(item) ==
    <<Tag(KeyDeviceName, item.VolumeId[1]),
      Tag(KeyVolumeType, item.VolumeType)>>

\* detach_volume: the Tags argument of create_tags for one item of volumes.
detach_tags(item) ==
    <<Tag(KeyDeviceName, item.Attachments[1].Device),
      Tag(KeyVolumeType, item.VolumeType)>>

\* Variant of volume_type that converts the older types to gp3.
volume_type_gp3(tags) ==
    IF TagValue(tags, KeyVolumeType) \in {"gp2", "io1", "standard"}
    THEN "gp3"
    ELSE TagValue(tags, KeyVolumeType)

\* create_volume: volume_type as read back from the tags of the snapshot.
volume_type(tags) == TagValue(tags, KeyVolumeType)

\* Variant of device_name that looks for the wrong key.
device_name_wrong_key(tags) == TagValue(tags, KeyVolumeType)

\* attach_volume: device_name as read back from the tags of the new volume.
device_name(tags) == TagValue(tags, KeyDeviceName)

---------------------------------------------------------------------------
(* Control flow *)

\* Variant of Raise in which the workflow restarts the instance on an error.
Raise_then_restart(kind) ==
    /\ pc' = "start_instances"
    /\ error' = [kind |-> kind, at |-> pc]

\* An exception leaves start_encryption (or __init__): nothing catches it.
Raise(kind) ==
    /\ pc' = "aborted"
    /\ error' = [kind |-> kind, at |-> pc]

\* The statement reached when a for loop is at position i of its list.
\* Variants of the loop tests that stop one item early.
PcDelete_short(i, snaps) ==
    IF i < Len(snaps) THEN "delete_snapshot" ELSE "done"
PcDelete(i, snaps) ==
    IF i <= Len(snaps) THEN "delete_snapshot" ELSE "done"
PcAttach(i, vols) ==
    IF i <= Len(vols) THEN "attach_volume" ELSE "start_instances"
PcCreateVolume_short(i, snaps, vols) ==
    IF i < Len(snaps) THEN "create_volume" ELSE PcAttach(1, vols)
PcCreateVolume(i, snaps, vols) ==
    IF i <= Len(snaps) THEN "create_volume" ELSE PcAttach(1, vols)
PcSnapshot(i, ids, snaps) ==
    IF i <= Len(ids) THEN "create_snapshot" ELSE PcCreateVolume(1, snaps, <<>>)
PcDetach_short(i, vols, ids) ==
    IF i < Len(vols) THEN "create_tags" ELSE PcSnapshot(1, ids, <<>>)
PcDetach(i, vols, ids) ==
    IF i <= Len(vols) THEN "create_tags" ELSE PcSnapshot(1, ids, <<>>)

\* The position of the loop after the body ran at position i: the next
\* item, or the first item of the loop that follows.
NextIdx(i, list) == IF i < Len(list) THEN i + 1 ELSE 1

\* A waiter's poll that did not see the awaited state: WaiterError once
\* max_attempts polls were made, otherwise sleep and poll again.
WaitAgain ==
    IF attempts + 1 >= max_attempts
    THEN Raise("WaiterError")
    ELSE pc' = pc /\ error' = error

---------------------------------------------------------------------------
(* Initial state *)

Init ==
    \E holds \in [1..MaxVols -> VolumeChoices], itype \in InstanceTypes,
       state \in {"running", "stopped"}, k \in Keys, zone \in Zones :
        LET slots == SelectSeq([i \in 1..MaxVols |-> i], LAMBDA i : holds[i] # "absent")
            inst == [InstanceId |-> instance_id,
                     InstanceType |-> itype,
                     Placement |-> [AvailabilityZone |-> zone],
                     State |-> state,
                     StatusOk |-> (state = "running"),
                     BlockDeviceMappings |->
                         [n \in 1..Len(slots) |->
                             Mapping(DevicePaths[slots[n]], VolId(slots[n]))]]
            vols == [id \in {VolId(i) : i \in {j \in 1..MaxVols : holds[j] # "absent"}} |->
                        OriginalVolume(id[2], holds[id[2]], zone)]
        IN /\ ec2_instance = inst
           /\ ec2_volumes = vols
           /\ ec2_snapshots = <<>>
           /\ key = k
           /\ pre_result = "unset"
           /\ pre_ebs = <<>>
           /\ pre_checks_passed = FALSE
           /\ ec2_details = [Placement |-> [AvailabilityZone |-> ""]]
           /\ pc = "new"
           /\ volume_ids = <<>>
           /\ availability_zone = ""
           /\ volumes = <<>>
           /\ snapshots = <<>>
           /\ encrypted_volumes = <<>>
           /\ idx = 0
           /\ response = <<>>
           /\ attempts = 0
           /\ error = [kind |-> "none", at |-> ""]
           /\ calls = <<>>
           /\ initial = [instance |-> inst, volumes |-> vols]

---------------------------------------------------------------------------
(* EncryptEC2.__init__ *)

\* The constructor: pre_checks, then, when it passed, the describe call whose
\* result is kept in self._ec2_details ("details": that call raises).
__init__ ==
    /\ pc = "new"
    /\ \E errAt \in {"none", "ebs", "type", "details"}, code \in ErrorCodes :
        LET result == pre_checks(errAt, code)
        IN /\ pre_result' = result
           /\ pre_ebs' = IF errAt = "ebs" THEN <<>> ELSE get_ebs_list
           /\ IF Truthy(result)
              THEN IF errAt = "details"
                   THEN /\ Raise("ClientError")
                        /\ pre_checks_passed' = TRUE
                        /\ ec2_details' = ec2_details
                   ELSE /\ pre_checks_passed' = TRUE
                        /\ ec2_details' = ec2_instance
                        /\ pc' = "constructed"
                        /\ error' = error
              ELSE /\ pre_checks_passed' = FALSE
                   /\ ec2_details' = ec2_details
                   /\ pc' = "constructed"
                   /\ error' = error
    /\ UNCHANGED <<provider, key, locals, calls, initial>>

---------------------------------------------------------------------------
(* EncryptEC2.start_encryption, statement by statement.  In every action   *)
(* err says that the remote call of the step raises a ClientError; a call  *)
(* that raises has no effect on the provider.                              *)

\* Variant of start_encryption that lists every attached volume.
start_encryption_every_volume ==
    /\ pc = "constructed"
    /\ IF ~pre_checks_passed
       THEN /\ pc' = "done"
            /\ UNCHANGED <<volume_ids, availability_zone, error>>
       ELSE /\ volume_ids' = [i \in 1..Len(get_ebs_list_unfiltered) |->
                                get_ebs_list_unfiltered[i].VolumeId]
            /\ availability_zone' = get_az
            /\ pc' = "stop_instances"
            /\ error' = error
    /\ UNCHANGED <<provider, object, volumes, snapshots, encrypted_volumes, idx,
                   response, attempts, calls, initial>>

\* if self._pre_checks_passed: volume_ids = [...get_ebs_list()]; get_az()
start_encryption ==
    /\ pc = "constructed"
    /\ IF ~pre_checks_passed
       THEN /\ pc' = "done"
            /\ UNCHANGED <<volume_ids, availability_zone, error>>
       ELSE \E err \in BOOLEAN :
            IF err
            THEN /\ Raise("ClientError")
                 /\ UNCHANGED <<volume_ids, availability_zone>>
            ELSE /\ volume_ids' = [i \in 1..Len(get_ebs_list) |-> get_ebs_list[i].VolumeId]
                 /\ availability_zone' = get_az
                 /\ pc' = "stop_instances"
                 /\ error' = error
    /\ UNCHANGED <<provider, object, volumes, snapshots, encrypted_volumes, idx,
                   response, attempts, calls, initial>>

\* stop_instance: self._ec2_client.stop_instances(...)
stop_instance ==
    /\ pc = "stop_instances"
    /\ \E err \in BOOLEAN :
        IF err
        THEN /\ Raise("ClientError")
             /\ UNCHANGED <<ec2_instance, attempts, calls>>
        ELSE /\ ec2_instance' =
                    [ec2_instance EXCEPT
                        !.State = IF @ = "stopped" THEN "stopped" ELSE "stopping",
                        !.StatusOk = FALSE]
             /\ calls' = Append(calls, Call("stop_instances", instance_id, ""))
             /\ attempts' = 0
             /\ pc' = "wait_stopped"
             /\ error' = error
    /\ UNCHANGED <<ec2_volumes, ec2_snapshots, object, volume_ids, availability_zone,
                   volumes, snapshots, encrypted_volumes, idx, response, initial>>

\* Variant of stop_instance_wait that returns after its first poll.
stop_instance_wait_one_poll ==
    /\ pc = "wait_stopped"
    /\ \E seen \in {ec2_instance.State, "stopped"} :
        /\ ec2_instance' = [ec2_instance EXCEPT !.State = seen]
        /\ attempts' = 0
        /\ error' = error
        /\ pc' = "detach_volume"
    /\ UNCHANGED <<ec2_volumes, ec2_snapshots, object, volume_ids, availability_zone,
                   volumes, snapshots, encrypted_volumes, idx, response, calls, initial>>

\* Variant of stop_instance_wait whose waiter starts over, instead of raising,
\* when its attempts are used up.
stop_instance_wait_starts_over ==
    /\ pc = "wait_stopped"
    /\ \E seen \in {ec2_instance.State, "stopped"} :
        /\ ec2_instance' = [ec2_instance EXCEPT !.State = seen]
        /\ attempts' = IF seen = "stopped" THEN 0 ELSE (attempts + 1) % max_attempts
        /\ error' = error
        /\ pc' = IF seen = "stopped" THEN "detach_volume" ELSE pc
    /\ UNCHANGED <<ec2_volumes, ec2_snapshots, object, volume_ids, availability_zone,
                   volumes, snapshots, encrypted_volumes, idx, response, calls, initial>>

\* Variant of stop_instance_wait that goes on when the attempts are used up.
stop_instance_wait_no_timeout ==
    /\ pc = "wait_stopped"
    /\ \E seen \in {ec2_instance.State, "stopped"} :
        /\ ec2_instance' = [ec2_instance EXCEPT !.State = seen]
        /\ attempts' = IF seen = "stopped" THEN 0 ELSE attempts + 1
        /\ error' = error
        /\ IF seen = "stopped" \/ attempts + 1 >= max_attempts
           THEN pc' = "detach_volume"
           ELSE pc' = pc
    /\ UNCHANGED <<ec2_volumes, ec2_snapshots, object, volume_ids, availability_zone,
                   volumes, snapshots, encrypted_volumes, idx, response, calls, initial>>

\* stop_instance: one poll of self._ec2_stop_waiter.wait(...).  The instance
\* may have finished stopping by the time of the poll.
stop_instance_wait ==
    /\ pc = "wait_stopped"
    /\ \E seen \in {ec2_instance.State, "stopped"} :
        /\ ec2_instance' = [ec2_instance EXCEPT !.State = seen]
        /\ attempts' = IF seen = "stopped" THEN 0 ELSE attempts + 1
        /\ IF seen = "stopped"
           THEN pc' = "detach_volume" /\ error' = error
           ELSE WaitAgain
    /\ UNCHANGED <<ec2_volumes, ec2_snapshots, object, volume_ids, availability_zone,
                   volumes, snapshots, encrypted_volumes, idx, response, calls, initial>>

\* Variant of detach_volume that lists every attached volume.
detach_volume_every_volume ==
    /\ pc = "detach_volume"
    /\ \E err \in BOOLEAN :
        IF err
        THEN /\ Raise("ClientError")
             /\ UNCHANGED <<volumes, idx>>
        ELSE /\ volumes' = get_ebs_list_unfiltered
             /\ idx' = 1
             /\ pc' = PcDetach(1, get_ebs_list_unfiltered, volume_ids)
             /\ error' = error
    /\ UNCHANGED <<provider, object, volume_ids, availability_zone, snapshots,
                   encrypted_volumes, response, attempts, calls, initial>>

\* detach_volume: volumes = self.get_ebs_list()
detach_volume ==
    /\ pc = "detach_volume"
    /\ \E err \in BOOLEAN :
        IF err
        THEN /\ Raise("ClientError")
             /\ UNCHANGED <<volumes, idx>>
        ELSE /\ volumes' = get_ebs_list
             /\ idx' = 1
             /\ pc' = PcDetach(1, get_ebs_list, volume_ids)
             /\ error' = error
    /\ UNCHANGED <<provider, object, volume_ids, availability_zone, snapshots,
                   encrypted_volumes, response, attempts, calls, initial>>

\* detach_volume: self._ec2_client.create_tags(...) for volumes[idx]
detach_volume_create_tags ==
    /\ pc = "create_tags"
    /\ \E err \in BOOLEAN :
        IF err
        THEN /\ Raise("ClientError")
             /\ UNCHANGED <<ec2_volumes, calls>>
        ELSE LET item == volumes[idx]
                 volume_id == item.VolumeId
                 tags == detach_tags(item)
             IN /\ ec2_volumes' =
                        [ec2_volumes EXCEPT ![volume_id].Tags = PutTags(@, tags)]
                /\ calls' = Append(calls, Call("create_tags", volume_id, tags))
                /\ pc' = "detach"
                /\ error' = error
    /\ UNCHANGED <<ec2_instance, ec2_snapshots, object, locals, initial>>

\* detach_volume: self._ec2_client.detach_volume(...) for volumes[idx]
detach_volume_detach ==
    /\ pc = "detach"
    /\ \E err \in BOOLEAN :
        IF err
        THEN /\ Raise("ClientError")
             /\ UNCHANGED <<ec2_volumes, attempts, calls>>
        ELSE LET volume_id == volumes[idx].VolumeId
             IN /\ ec2_volumes' =
                        [ec2_volumes EXCEPT
                            ![volume_id].Attachments =
                                [i \in 1..Len(@) |-> [@[i] EXCEPT !.State = "detaching"]]]
                /\ calls' = Append(calls, Call("detach_volume", volume_id, instance_id))
                /\ attempts' = 0
                /\ pc' = "wait_detached"
                /\ error' = error
    /\ UNCHANGED <<ec2_instance, ec2_snapshots, object, volume_ids, availability_zone,
                   volumes, snapshots, encrypted_volumes, idx, response, initial>>

\* The provider finishes a detach: the volume is available and no longer
\* among the instance's block device mappings.
Detached(volume_id) ==
    /\ ec2_volumes' =
            [ec2_volumes EXCEPT ![volume_id].Attachments = <<>>,
                                ![volume_id].State = "available"]
    /\ ec2_instance' =
            [ec2_instance EXCEPT
                !.BlockDeviceMappings =
                    SelectSeq(@, LAMBDA ebs : ebs.Ebs.VolumeId # volume_id)]

\* detach_volume: one poll of self._ebs_available_waiter.wait(...)
detach_volume_wait ==
    /\ pc = "wait_detached"
    /\ LET volume_id == volumes[idx].VolumeId
       IN \E available \in BOOLEAN :
            /\ attempts' = IF available THEN 0 ELSE attempts + 1
            /\ IF available
               THEN /\ Detached(volume_id)
                    /\ idx' = NextIdx(idx, volumes)
                    /\ pc' = PcDetach(idx + 1, volumes, volume_ids)
                    /\ error' = error
               ELSE /\ WaitAgain
                    /\ UNCHANGED <<ec2_volumes, ec2_instance, idx>>
    /\ UNCHANGED <<ec2_snapshots, object, volume_ids, availability_zone, volumes,
                   snapshots, encrypted_volumes, response, calls, initial>>

---------------------------------------------------------------------------
(* create_snapshots, create_volume, attach_volume *)

\* create_snapshots: read the tags of volume_ids[idx], create_snapshot(...)
create_snapshots ==
    /\ pc = "create_snapshot"
    /\ \E err \in BOOLEAN :
        IF err
        THEN /\ Raise("ClientError")
             /\ UNCHANGED <<ec2_snapshots, response, attempts, calls>>
        ELSE LET volume == volume_ids[idx]
                 tags == final_tags(ec2_volumes[volume].Tags)
                 id == SnapId(Len(CallsOf("create_snapshot")) + 1)
             IN /\ ec2_snapshots' =
                        (id :> [SnapshotId |-> id, VolumeId |-> volume,
                                Tags |-> tags, State |-> "pending"]) @@ ec2_snapshots
                /\ calls' = Append(calls, Call("create_snapshot", id, volume))
                /\ response' = id
                /\ attempts' = 0
                /\ pc' = "wait_snapshot"
                /\ error' = error
    /\ UNCHANGED <<ec2_instance, ec2_volumes, object, volume_ids, availability_zone,
                   volumes, snapshots, encrypted_volumes, idx, initial>>

\* create_snapshots: one poll of self._snapshot_created_waiter.wait(...),
\* then created_snapshots.append(response['SnapshotId'])
create_snapshots_wait ==
    /\ pc = "wait_snapshot"
    /\ \E completed \in BOOLEAN :
        /\ attempts' = IF completed THEN 0 ELSE attempts + 1
        /\ IF completed
           THEN /\ ec2_snapshots' = [ec2_snapshots EXCEPT ![response].State = "completed"]
                /\ snapshots' = Append(snapshots, response)
                /\ idx' = NextIdx(idx, volume_ids)
                /\ pc' = PcSnapshot(idx + 1, volume_ids, Append(snapshots, response))
                /\ error' = error
           ELSE /\ WaitAgain
                /\ UNCHANGED <<ec2_snapshots, snapshots, idx>>
    /\ UNCHANGED <<ec2_instance, ec2_volumes, object, volume_ids, availability_zone,
                   volumes, encrypted_volumes, response, calls, initial>>

\* create_volume: read the tags of snapshots[idx], create_volume(...)
create_volume ==
    /\ pc = "create_volume"
    /\ \E err \in BOOLEAN :
        IF err
        THEN /\ Raise("ClientError")
             /\ UNCHANGED <<ec2_volumes, response, attempts, calls>>
        ELSE LET snapshot == snapshots[idx]
                 tags == ec2_snapshots[snapshot].Tags
                 id == VolId(MaxVols + Len(CallsOf("create_volume")) + 1)
             IN /\ ec2_volumes' =
                        (id :> [VolumeId |-> id,
                                Encrypted |-> TRUE,
                                KmsKeyId |-> key,
                                SnapshotId |-> snapshot,
                                VolumeType |-> volume_type(tags),
                                AvailabilityZone |-> availability_zone,
                                Tags |-> tags,
                                State |-> "creating",
                                Attachments |-> <<>>]) @@ ec2_volumes
                /\ calls' = Append(calls, Call("create_volume", id, snapshot))
                /\ response' = id
                /\ attempts' = 0
                /\ pc' = "wait_volume"
                /\ error' = error
    /\ UNCHANGED <<ec2_instance, ec2_snapshots, object, volume_ids, availability_zone,
                   volumes, snapshots, encrypted_volumes, idx, initial>>

\* Variant of create_volume_wait that does not wait for the volume.
create_volume_wait_no_wait ==
    /\ pc = "wait_volume"
    /\ attempts' = 0
    /\ encrypted_volumes' = Append(encrypted_volumes, response)
    /\ idx' = NextIdx(idx, snapshots)
    /\ pc' = PcCreateVolume(idx + 1, snapshots, Append(encrypted_volumes, response))
    /\ UNCHANGED <<provider, object, volume_ids, availability_zone, volumes,
                   snapshots, response, error, calls, initial>>

\* create_volume: one poll of self._ebs_available_waiter.wait(...), then
\* created_volumes.append(response['VolumeId'])
create_volume_wait ==
    /\ pc = "wait_volume"
    /\ \E available \in BOOLEAN :
        /\ attempts' = IF available THEN 0 ELSE attempts + 1
        /\ IF available
           THEN /\ ec2_volumes' = [ec2_volumes EXCEPT ![response].State = "available"]
                /\ encrypted_volumes' = Append(encrypted_volumes, response)
                /\ idx' = NextIdx(idx, snapshots)
                /\ pc' = PcCreateVolume(idx + 1, snapshots,
                                        Append(encrypted_volumes, response))
                /\ error' = error
           ELSE /\ WaitAgain
                /\ UNCHANGED <<ec2_volumes, encrypted_volumes, idx>>
    /\ UNCHANGED <<ec2_instance, ec2_snapshots, object, volume_ids, availability_zone,
                   volumes, snapshots, response, calls, initial>>

\* Variant of attach_volume that attaches the volumes of volume_ids.
attach_volume_originals ==
    /\ pc = "attach_volume"
    /\ \E err \in BOOLEAN :
        IF err
        THEN /\ Raise("ClientError")
             /\ UNCHANGED <<ec2_instance, ec2_volumes, idx, calls>>
        ELSE LET volume == volume_ids[idx]
                 device == device_name(ec2_volumes[volume].Tags)
             IN /\ ec2_volumes' =
                        [ec2_volumes EXCEPT
                            ![volume].Attachments = <<Attachment(device)>>,
                            ![volume].State = "in-use"]
                /\ ec2_instance' =
                        [ec2_instance EXCEPT
                            !.BlockDeviceMappings =
                                Append(@, Mapping(device, volume))]
                /\ calls' = Append(calls, Call("attach_volume", volume, device))
                /\ idx' = NextIdx(idx, encrypted_volumes)
                /\ pc' = PcAttach(idx + 1, encrypted_volumes)
                /\ error' = error
    /\ UNCHANGED <<ec2_snapshots, object, volume_ids, availability_zone, volumes,
                   snapshots, encrypted_volumes, response, attempts, initial>>

\* attach_volume: read the tags of encrypted_volumes[idx], attach_volume(...)
attach_volume ==
    /\ pc = "attach_volume"
    /\ \E err \in BOOLEAN :
        IF err
        THEN /\ Raise("ClientError")
             /\ UNCHANGED <<ec2_instance, ec2_volumes, idx, calls>>
        ELSE LET volume == encrypted_volumes[idx]
                 device == device_name(ec2_volumes[volume].Tags)
             IN /\ ec2_volumes' =
                        [ec2_volumes EXCEPT
                            ![volume].Attachments = <<Attachment(device)>>,
                            ![volume].State = "in-use"]
                /\ ec2_instance' =
                        [ec2_instance EXCEPT
                            !.BlockDeviceMappings =
                                Append(@, Mapping(device, volume))]
                /\ calls' = Append(calls, Call("attach_volume", volume, device))
                /\ idx' = NextIdx(idx, encrypted_volumes)
                /\ pc' = PcAttach(idx + 1, encrypted_volumes)
                /\ error' = error
    /\ UNCHANGED <<ec2_snapshots, object, volume_ids, availability_zone, volumes,
                   snapshots, encrypted_volumes, response, attempts, initial>>

---------------------------------------------------------------------------
(* start_instance, delete_snapshots *)

\* Variant of start_instance that leaves alone an instance that was stopped
\* before the run.
start_instance_restores ==
    /\ pc = "start_instances"
    /\ \E err \in BOOLEAN :
        IF err
        THEN /\ Raise("ClientError")
             /\ UNCHANGED <<ec2_instance, attempts, calls, idx>>
        ELSE IF initial.instance.State = "stopped"
        THEN /\ idx' = 1
             /\ pc' = PcDelete(1, snapshots)
             /\ error' = error
             /\ UNCHANGED <<ec2_instance, attempts, calls>>
        ELSE /\ ec2_instance' =
                    [ec2_instance EXCEPT
                        !.State = IF @ = "stopped" THEN "pending" ELSE @]
             /\ calls' = Append(calls, Call("start_instances", instance_id, ""))
             /\ attempts' = 0
             /\ pc' = "wait_status_ok"
             /\ error' = error
             /\ idx' = idx
    /\ UNCHANGED <<ec2_volumes, ec2_snapshots, object, volume_ids, availability_zone,
                   volumes, snapshots, encrypted_volumes, response, initial>>

\* start_instance: self._ec2_client.start_instances(...)
start_instance ==
    /\ pc = "start_instances"
    /\ \E err \in BOOLEAN :
        IF err
        THEN /\ Raise("ClientError")
             /\ UNCHANGED <<ec2_instance, attempts, calls>>
        ELSE /\ ec2_instance' =
                    [ec2_instance EXCEPT
                        !.State = IF @ = "stopped" THEN "pending" ELSE @]
             /\ calls' = Append(calls, Call("start_instances", instance_id, ""))
             /\ attempts' = 0
             /\ pc' = "wait_status_ok"
             /\ error' = error
    /\ UNCHANGED <<ec2_volumes, ec2_snapshots, object, volume_ids, availability_zone,
                   volumes, snapshots, encrypted_volumes, idx, response, initial>>

\* start_instance: one poll of self._ec2_status_check_waiter.wait(...).  The
\* instance passes its status checks only once it is running.
start_instance_wait ==
    /\ pc = "wait_status_ok"
    /\ \E ok \in BOOLEAN, seen \in {ec2_instance.State, "running"} :
        /\ attempts' = IF ok THEN 0 ELSE attempts + 1
        /\ IF ok
           THEN /\ ec2_instance' = [ec2_instance EXCEPT !.State = "running",
                                                        !.StatusOk = TRUE]
                /\ idx' = 1
                /\ pc' = PcDelete(1, snapshots)
                /\ error' = error
           ELSE /\ ec2_instance' = [ec2_instance EXCEPT !.State = seen]
                /\ WaitAgain
                /\ idx' = idx
    /\ UNCHANGED <<ec2_volumes, ec2_snapshots, object, volume_ids, availability_zone,
                   volumes, snapshots, encrypted_volumes, response, calls, initial>>

\* delete_snapshots: self._ec2_client.delete_snapshot(SnapshotId=snapshots[idx])
delete_snapshots ==
    /\ pc = "delete_snapshot"
    /\ \E err \in BOOLEAN :
        IF err
        THEN /\ Raise("ClientError")
             /\ UNCHANGED <<ec2_snapshots, idx, calls>>
        ELSE LET item == snapshots[idx]
             IN /\ ec2_snapshots' =
                        [id \in DOMAIN ec2_snapshots \ {item} |-> ec2_snapshots[id]]
                /\ calls' = Append(calls, Call("delete_snapshot", item, ""))
                /\ idx' = NextIdx(idx, snapshots)
                /\ pc' = PcDelete(idx + 1, snapshots)
                /\ error' = error
    /\ UNCHANGED <<ec2_instance, ec2_volumes, object, volume_ids, availability_zone,
                   volumes, snapshots, encrypted_volumes, response, attempts, initial>>

---------------------------------------------------------------------------
(* Specification *)

Next ==
    \/ __init__
    \/ start_encryption
    \/ stop_instance
    \/ stop_instance_wait
    \/ detach_volume
    \/ detach_volume_create_tags
    \/ detach_volume_detach
    \/ detach_volume_wait
    \/ create_snapshots
    \/ create_snapshots_wait
    \/ create_volume
    \/ create_volume_wait
    \/ attach_volume
    \/ start_instance
    \/ start_instance_wait
    \/ delete_snapshots

Spec == Init /\ [][Next]_vars

\* The script is one thread that runs until it returns or raises: every call
\* to the provider comes back (with a response or an error) and every sleep
\* of a waiter ends, so the run always takes its next step.
FairSpec == Spec /\ WF_vars(Next)

---------------------------------------------------------------------------
(* Vocabulary of the properties *)

\* The volumes attached and unencrypted before the run, and all the others.
OrigIds == DOMAIN initial.volumes
OrigUnencrypted == {v \in OrigIds : ~initial.volumes[v].Encrypted}
OrigEncrypted == {v \in OrigIds : initial.volumes[v].Encrypted}
NewVolumes == DOMAIN ec2_volumes \ OrigIds

\* The device a volume was attached at, and its type, before the run.
InitialDevice(v) == initial.volumes[v].Attachments[1].Device
InitialType(v) == initial.volumes[v].VolumeType

\* Positions of the calls of one operation in the log.
Issued(op) == {i \in 1..Len(calls) : calls[i].op = op}

\* The volume a snapshot was requested of, the snapshot a volume was requested
\* from, and so the original volume a new volume descends from.
SnapshotsOf(v) == {calls[i].res : i \in {j \in Issued("create_snapshot") : calls[j].arg = v}}
VolumesFrom(s) == {calls[i].res : i \in {j \in Issued("create_volume") : calls[j].arg = s}}
Descendants(v) == UNION {VolumesFrom(s) : s \in SnapshotsOf(v)}

AttachedAt(w, device) ==
    /\ Len(ec2_volumes[w].Attachments) = 1
    /\ ec2_volumes[w].Attachments[1].Device = device
    /\ ec2_volumes[w].Attachments[1].InstanceId = instance_id
    /\ ec2_volumes[w].Attachments[1].State = "attached"
    /\ \E i \in 1..Len(ec2_instance.BlockDeviceMappings) :
            ec2_instance.BlockDeviceMappings[i] = Mapping(device, w)

\* The tag list carries key k, once, with value val.
HasTag(tags, k, val) ==
    /\ \E i \in 1..Len(tags) : tags[i] = Tag(k, val)
    /\ \A i \in 1..Len(tags) : tags[i].Key = k => tags[i].Value = val

HasKey(tags, k) == \E i \in 1..Len(tags) : tags[i].Key = k

\* The replacements of every unencrypted original are in place: one new
\* encrypted volume at its device, made from its snapshot, and no device
\* holds two new volumes.
Replaced ==
    /\ \A v \in OrigUnencrypted :
        LET at == {w \in NewVolumes : AttachedAt(w, InitialDevice(v))}
        IN /\ Cardinality(at) = 1
           /\ \A w \in at : ec2_volumes[w].Encrypted /\ w \in Descendants(v)
    /\ \A i \in 1..Len(DevicePaths) :
        Cardinality({w \in NewVolumes : AttachedAt(w, DevicePaths[i])}) <= 1
    /\ \A w \in NewVolumes : Len(ec2_volumes[w].Attachments) = 1 =>
        \E v \in OrigUnencrypted : AttachedAt(w, InitialDevice(v))

---------------------------------------------------------------------------
(* C1 *)

\* C1 as stated: at the end of every run of start_encryption that completes
\* without error, every volume that was attached and unencrypted at the start
\* has exactly one new encrypted volume attached at its device path, and no
\* device path carries more than one replacement.
C1_EveryCompletedRunReplaces == pc = "done" => Replaced

\* C1, amended: the same at the end of every run of start_encryption whose
\* pre-check passed and that completes without error.  (A run whose pre-check
\* did not pass also completes without error, and replaces nothing.)
C1_PassedRunReplaces == (pc = "done" /\ pre_checks_passed) => Replaced

\* A completed run that replaced two unencrypted volumes.
C1_Witness ==
    /\ pc = "done"
    /\ pre_checks_passed
    /\ Cardinality(OrigUnencrypted) = 2
    /\ Replaced

---------------------------------------------------------------------------
(* C2 *)

\* C2: a run with a passing pre-check that completes without error, on an
\* instance with N >= 1 unencrypted attached volumes, has issued exactly N
\* create_snapshot, N create_volume and N attach_volume calls, one of each
\* per original unencrypted volume.
C2_OneCallOfEachPerVolume ==
    (pc = "done" /\ pre_checks_passed) =>
        LET N == Cardinality(OrigUnencrypted)
        IN /\ N >= 1
           /\ Cardinality(Issued("create_snapshot")) = N
           /\ Cardinality(Issued("create_volume")) = N
           /\ Cardinality(Issued("attach_volume")) = N
           /\ \A v \in OrigUnencrypted :
                /\ Cardinality({i \in Issued("create_snapshot") : calls[i].arg = v}) = 1
                /\ Cardinality({i \in Issued("create_volume") :
                                    calls[i].arg \in SnapshotsOf(v)}) = 1
                /\ Cardinality({i \in Issued("attach_volume") :
                                    calls[i].res \in Descendants(v)}) = 1

\* A completed run that issued two attach_volume calls for two unencrypted
\* volumes of different types.
C2_Witness ==
    /\ pc = "done"
    /\ pre_checks_passed
    /\ Cardinality(OrigUnencrypted) = 2
    /\ Cardinality({InitialType(v) : v \in OrigUnencrypted}) = 2
    /\ Cardinality(Issued("attach_volume")) = 2

---------------------------------------------------------------------------
(* C3 *)

\* C3: for every original unencrypted volume that detach_volume has tagged,
\* the 'device-name' and 'volume-type' tags it wrote (the device path the
\* volume was attached at when detached, and its volume type) are on the
\* volume, on every snapshot taken of it and on every encrypted volume made
\* from such a snapshot, with the same values; and every attach_volume call
\* for such a volume names the device path the original was detached from.
C3_TagsPropagate ==
    \A v \in OrigUnencrypted :
        (\E i \in Issued("create_tags") : calls[i].res = v) =>
            LET device == InitialDevice(v)
                type == InitialType(v)
                Carries(tags) == /\ HasTag(tags, KeyDeviceName, device)
                                 /\ HasTag(tags, KeyVolumeType, type)
            IN /\ Carries(ec2_volumes[v].Tags)
               /\ \A s \in DOMAIN ec2_snapshots :
                    ec2_snapshots[s].VolumeId = v => Carries(ec2_snapshots[s].Tags)
               /\ \A w \in Descendants(v) : Carries(ec2_volumes[w].Tags)
               /\ \A i \in Issued("attach_volume") :
                    calls[i].res \in Descendants(v) => calls[i].arg = device
               /\ \A s \in SnapshotsOf(v) : \A i \in Issued("create_volume") :
                    calls[i].arg = s => ec2_volumes[calls[i].res].VolumeType = type

\* A new volume is attached while the snapshot it was made from still exists,
\* for an original that carried its own 'device-name' tag before the run.
C3_Witness ==
    \E v \in OrigUnencrypted : \E s \in DOMAIN ec2_snapshots : \E w \in Descendants(v) :
        /\ HasKey(initial.volumes[v].Tags, KeyDeviceName)
        /\ ec2_snapshots[s].VolumeId = v
        /\ w \in VolumesFrom(s)
        /\ \E i \in Issued("attach_volume") : calls[i].res = w

---------------------------------------------------------------------------
(* C4 *)

ReservedPrefix == <<"a","w","s">>

\* C4 as stated: every tag an original volume carried before the run is
\* absent from a snapshot of the volume if its key has the reserved prefix,
\* and otherwise is on the snapshot with the same key and the same value.
C4_TagRoundTrip ==
    \A s \in DOMAIN ec2_snapshots :
        LET before == initial.volumes[ec2_snapshots[s].VolumeId].Tags
            after == ec2_snapshots[s].Tags
        IN \A i \in 1..Len(before) :
            IF StartsWith(before[i].Key, ReservedPrefix)
            THEN ~HasKey(after, before[i].Key)
            ELSE HasTag(after, before[i].Key, before[i].Value)

\* C4, amended: the same, except for a tag whose key is 'device-name' or
\* 'volume-type': detach_volume overwrites it, and the snapshot carries that
\* key with the value detach_volume wrote (the device path, the volume type).
C4_TagRoundTripButWritten ==
    \A s \in DOMAIN ec2_snapshots :
        LET v == ec2_snapshots[s].VolumeId
            before == initial.volumes[v].Tags
            after == ec2_snapshots[s].Tags
        IN \A i \in 1..Len(before) :
            CASE StartsWith(before[i].Key, ReservedPrefix) ->
                    ~HasKey(after, before[i].Key)
              [] before[i].Key = KeyDeviceName ->
                    HasTag(after, KeyDeviceName, InitialDevice(v))
              [] before[i].Key = KeyVolumeType ->
                    HasTag(after, KeyVolumeType, InitialType(v))
              [] OTHER -> HasTag(after, before[i].Key, before[i].Value)

\* Snapshots exist of a volume that carried a reserved tag and of a volume
\* that carried 'device-name' and 'volume-type' tags of its own.
C4_Witness ==
    /\ \E s \in DOMAIN ec2_snapshots :
        HasKey(initial.volumes[ec2_snapshots[s].VolumeId].Tags, KeyAwsCfn)
    /\ \E s \in DOMAIN ec2_snapshots :
        HasKey(initial.volumes[ec2_snapshots[s].VolumeId].Tags, KeyDeviceName)

---------------------------------------------------------------------------
(* C5 *)

\* C5: a volume attached and encrypted before the run is left as it was in
\* every state of the run: the provider's record of it (tags, state,
\* attachment) is unchanged, it is still mapped at its device, no create_tags,
\* detach_volume or create_snapshot call names it; and every detach_volume
\* call names a volume that was unencrypted.
C5_EncryptedUntouched ==
    /\ \A e \in OrigEncrypted :
        /\ ec2_volumes[e] = initial.volumes[e]
        /\ AttachedAt(e, InitialDevice(e))
        /\ \A i \in Issued("create_tags") \cup Issued("detach_volume") : calls[i].res # e
        /\ \A i \in Issued("create_snapshot") : calls[i].arg # e
    /\ \A i \in Issued("detach_volume") : calls[i].res \in OrigUnencrypted

\* A completed run on an instance with one encrypted and one unencrypted volume.
C5_Witness ==
    /\ pc = "done"
    /\ pre_checks_passed
    /\ OrigEncrypted # {}
    /\ Issued("detach_volume") # {}

---------------------------------------------------------------------------
(* C6, C7 *)

\* C6 as stated: for every instance with zero unencrypted attached volumes,
\* pre_checks returns False and the program issues no mutating call.
C6_NothingToDoReturnsFalse ==
    (pre_result # "unset" /\ OrigUnencrypted = {}) =>
        (pre_result = "False" /\ calls = <<>>)

\* C7 as stated: for every instance of a disallowed legacy type, pre_checks
\* returns False whatever the encryption state of its volumes.
C7_LegacyTypeReturnsFalse ==
    (pre_result # "unset" /\ UnsupportedType(initial.instance.InstanceType)) =>
        pre_result = "False"

---------------------------------------------------------------------------
(* C8 *)

\* C8: whenever pre_checks returned something other than True (False, or no
\* value after a ClientError that the except clause only prints), the run
\* issues no call that changes the provider: __init__ records the failure and
\* start_encryption ends at once, with the instance, the volumes and the
\* snapshots as they were.
C8_FailsClosed ==
    pre_result \in {"False", "None"} =>
        /\ ~pre_checks_passed
        /\ pc \in {"constructed", "done"}
        /\ calls = <<>>
        /\ ec2_instance = initial.instance
        /\ ec2_volumes = initial.volumes
        /\ DOMAIN ec2_snapshots = {}

\* start_encryption has run after pre_checks ended without a return value, on
\* an instance that has an unencrypted volume and a supported type.
C8_Witness ==
    /\ pc = "done"
    /\ pre_result = "None"
    /\ OrigUnencrypted # {}
    /\ ~UnsupportedType(ec2_instance.InstanceType)

---------------------------------------------------------------------------
(* C9 *)

NoTagNoDetach == Issued("create_tags") = {} /\ Issued("detach_volume") = {}

\* C9: when the last allowed poll of the stop wait still does not see the
\* instance stopped, the run aborts with a WaiterError; an aborted run issues
\* no further call; and a run aborted in the stop wait has issued no
\* create_tags and no detach_volume call.
C9_StopTimeoutAborts ==
    /\ [][(/\ pc = "wait_stopped"
           /\ attempts + 1 >= max_attempts
           /\ ec2_instance'.State # "stopped")
          => (pc' = "aborted" /\ error'.kind = "WaiterError" /\ NoTagNoDetach')]_vars
    /\ [][pc = "aborted" => (pc' = "aborted" /\ calls' = calls)]_vars
    /\ []((pc = "aborted" /\ error.at = "wait_stopped") => NoTagNoDetach)

\* The stop wait used up its attempts on an instance still stopping.
C9_Witness ==
    /\ pc = "aborted"
    /\ error = [kind |-> "WaiterError", at |-> "wait_stopped"]
    /\ attempts = max_attempts
    /\ ec2_instance.State = "stopping"

---------------------------------------------------------------------------
(* C10 *)

\* C10: at the end of a run that completed without error, every snapshot
\* the run created has been deleted by one delete_snapshot call; and when a
\* delete_snapshot call has been issued, the start_instances call came
\* before it, the instance is running and passes its status checks, and the
\* deleted snapshot's encrypted volume exists and is attached.
C10_Cleanup ==
    /\ pc = "done" =>
        /\ DOMAIN ec2_snapshots = {}
        /\ \A i \in Issued("create_snapshot") :
            Cardinality({j \in Issued("delete_snapshot") :
                            calls[j].res = calls[i].res}) = 1
    /\ \A j \in Issued("delete_snapshot") :
        /\ \E i \in Issued("start_instances") : i < j
        /\ ec2_instance.State = "running"
        /\ ec2_instance.StatusOk
        /\ calls[j].res \notin DOMAIN ec2_snapshots
        /\ \E w \in VolumesFrom(calls[j].res) :
            /\ ec2_volumes[w].Encrypted
            /\ Len(ec2_volumes[w].Attachments) = 1

\* A completed run that created and deleted two snapshots.
C10_Witness ==
    /\ pc = "done"
    /\ Cardinality(Issued("create_snapshot")) = 2
    /\ Cardinality(Issued("delete_snapshot")) = 2

---------------------------------------------------------------------------
(* C11 *)

Ids(list) == [i \in 1..Len(list) |-> list[i].VolumeId]

---------------------------------------------------------------------------
(* C12 *)

\* The run is at a statement of the loop of detach_volume, or ended there.
At(steps) == pc \in steps \/ (pc = "aborted" /\ error.at \in steps)
DetachSteps == {"create_tags", "detach", "wait_detached"}

\* C12: every create_tags and detach_volume call comes after the
\* stop_instances call; while the run is in the loop of detach_volume (where
\* those calls are issued and the detaches complete) the provider's state of
\* the instance is 'stopped'; and as long as no start_instances call was
\* issued, a volume that is tagged, detaching or detached implies a stopped
\* instance.
C12_DetachOnlyWhenStopped ==
    /\ \A i \in Issued("create_tags") \cup Issued("detach_volume") :
        \E j \in Issued("stop_instances") : j < i
    /\ At(DetachSteps) => ec2_instance.State = "stopped"
    /\ ((\E v \in OrigIds : ec2_volumes[v] # initial.volumes[v])
            /\ Issued("start_instances") = {})
        => ec2_instance.State = "stopped"

\* A volume is being detached from an instance that was running before the
\* run.
C12_Witness ==
    /\ pc = "wait_detached"
    /\ initial.instance.State = "running"
    /\ ec2_instance.State = "stopped"
    /\ Issued("detach_volume") # {}

---------------------------------------------------------------------------
(* C13 *)

\* The provider reports the volume available, with no attachment.
Available(v) ==
    /\ ec2_volumes[v].State = "available"
    /\ ec2_volumes[v].Attachments = <<>>

\* C13: a create_snapshot call for a volume comes after a create_tags call
\* and then a detach_volume call for that volume, the volume carries the
\* 'device-name' and 'volume-type' tags and is available; and when the run is
\* about to request a snapshot, or has requested one, every volume that was
\* unencrypted and attached has been detached before the first request and
\* is available.
C13_SnapshotAfterDetach ==
    /\ \A i \in Issued("create_snapshot") :
        LET v == calls[i].arg
        IN /\ \E j \in Issued("create_tags"), k \in Issued("detach_volume") :
                j < k /\ k < i /\ calls[j].res = v /\ calls[k].res = v
           /\ HasTag(ec2_volumes[v].Tags, KeyDeviceName, InitialDevice(v))
           /\ HasTag(ec2_volumes[v].Tags, KeyVolumeType, InitialType(v))
           /\ Available(v)
    /\ (pc = "create_snapshot" \/ Issued("create_snapshot") # {}) =>
        \A u \in OrigUnencrypted :
            /\ Available(u)
            /\ \E k \in Issued("detach_volume") :
                /\ calls[k].res = u
                /\ \A i \in Issued("create_snapshot") : k < i

\* The first snapshot was requested on an instance with two unencrypted volumes.
C13_Witness ==
    /\ pc = "wait_snapshot"
    /\ Cardinality(OrigUnencrypted) = 2
    /\ Cardinality(Issued("create_snapshot")) = 1
    /\ \A u \in OrigUnencrypted : Available(u)

---------------------------------------------------------------------------
(* C14 *)

\* What holds of the state a call is issued from, for the call c.
Gated(c) ==
    /\ c.op = "create_volume" =>
        /\ c.arg \in DOMAIN ec2_snapshots
        /\ ec2_snapshots[c.arg].State = "completed"
    /\ c.op = "attach_volume" =>
        /\ c.res \in NewVolumes
        /\ ec2_volumes[c.res].State = "available"
    /\ c.op = "start_instances" =>
        /\ NewVolumes # {}
        /\ \A w \in NewVolumes : \E i \in Issued("attach_volume") : calls[i].res = w

\* C14: create_volume is issued for a snapshot only when the provider has
\* reported that snapshot completed, attach_volume for a new volume only when
\* the provider has reported that volume available, and start_instances only
\* when an attach_volume call has been issued for every new volume.
C14_StepsGatedByWaits ==
    [][IF Len(calls') = Len(calls) + 1 THEN Gated(calls'[Len(calls')]) ELSE TRUE]_vars

\* The instance is started after two new volumes were attached.
C14_Witness ==
    /\ pc = "wait_status_ok"
    /\ Cardinality(NewVolumes) = 2
    /\ Cardinality(Issued("attach_volume")) = 2
    /\ Issued("start_instances") # {}

---------------------------------------------------------------------------
(* C15 *)

Failed == error.kind # "none"

\* The statements between the end of the stop wait and the start_instances call.
StoppedSteps ==
    DetachSteps \cup {"detach_volume", "create_snapshot", "wait_snapshot",
                      "create_volume", "wait_volume", "attach_volume",
                      "start_instances"}

---------------------------------------------------------------------------
(* C16 *)

\* The original volumes whose snapshot of this run is s.
SourcesOf(s) == {v \in OrigIds : s \in SnapshotsOf(v)}

\* C16: every volume the workflow creates is encrypted, under the key given to
\* the constructor, in the availability zone the instance had before the run,
\* from one snapshot the run took of one original unencrypted volume, and of
\* the type that original volume had; every create_volume call made such a
\* volume.
C16_CreatedVolumes ==
    /\ \A i \in Issued("create_volume") : calls[i].res \in NewVolumes
    /\ \A w \in NewVolumes :
        /\ ec2_volumes[w].Encrypted
        /\ ec2_volumes[w].KmsKeyId = key
        /\ ec2_volumes[w].AvailabilityZone = initial.instance.Placement.AvailabilityZone
        /\ Cardinality({i \in Issued("create_volume") : calls[i].res = w}) = 1
        /\ \A i \in Issued("create_volume") :
            calls[i].res = w => calls[i].arg = ec2_volumes[w].SnapshotId
        /\ Cardinality(SourcesOf(ec2_volumes[w].SnapshotId)) = 1
        /\ \A v \in SourcesOf(ec2_volumes[w].SnapshotId) :
            /\ v \in OrigUnencrypted
            /\ ec2_volumes[w].VolumeType = InitialType(v)

\* Two volumes of different types were created, under a key that is not the
\* default, in the second zone.
C16_Witness ==
    /\ key = "alias/app"
    /\ initial.instance.Placement.AvailabilityZone = "us-east-1b"
    /\ Cardinality(NewVolumes) = 2
    /\ {ec2_volumes[w].VolumeType : w \in NewVolumes} = {"gp2", "io1"}

---------------------------------------------------------------------------
(* C17 *)

WaitSteps ==
    {"wait_stopped", "wait_detached", "wait_snapshot", "wait_volume", "wait_status_ok"}

\* C17: every run ends, completed or aborted, whatever the provider reports.
\* A wait never makes more than max_attempts polls: the poll that uses up the
\* attempts without seeing the awaited state aborts the run with a WaiterError.
C17_Terminates ==
    /\ <>(pc \in {"done", "aborted"})
    /\ [](attempts <= max_attempts)
    /\ [](attempts = max_attempts =>
            (pc = "aborted" /\ error.kind = "WaiterError" /\ error.at \in WaitSteps))

\* The provider never reported the snapshot as completed: the run was aborted
\* at the last poll.
C17_Witness ==
    /\ pc = "aborted"
    /\ error = [kind |-> "WaiterError", at |-> "wait_snapshot"]
    /\ attempts = max_attempts

---------------------------------------------------------------------------
(* C18 *)

\* The statements that follow the listing made inside detach_volume.
AfterListing ==
    DetachSteps \cup {"create_snapshot", "wait_snapshot", "create_volume",
                      "wait_volume", "attach_volume", "start_instances",
                      "wait_status_ok", "delete_snapshot"}

Range(list) == {list[i] : i \in 1..Len(list)}

\* C18: the volumes listed inside detach_volume, after the stop, are the
\* volumes start_encryption listed before the stop.  Every create_snapshot
\* call names a volume that a create_tags call and then a detach_volume call
\* named before, and at the end of a run that went through, every volume a
\* detach_volume call named has a snapshot call and an attached replacement.
C18_SameVolumes ==
    /\ (At(AfterListing) \/ (pc = "done" /\ pre_checks_passed)) =>
            /\ Range(Ids(volumes)) = Range(volume_ids)
            /\ Len(volumes) = Len(volume_ids)
    /\ \A i \in Issued("create_snapshot") :
        \E j \in Issued("create_tags"), k \in Issued("detach_volume") :
            /\ j < k /\ k < i
            /\ calls[j].res = calls[i].arg
            /\ calls[k].res = calls[i].arg
    /\ pc = "done" =>
        \A k \in Issued("detach_volume") :
            /\ SnapshotsOf(calls[k].res) # {}
            /\ \E w \in Descendants(calls[k].res) :
                AttachedAt(w, InitialDevice(calls[k].res))

\* A run that went through on an instance with an encrypted volume, which was
\* left alone, and an unencrypted one, which was detached and snapshotted.
C18_Witness ==
    /\ pc = "done"
    /\ OrigEncrypted # {}
    /\ Cardinality(Issued("detach_volume")) = 1
    /\ Cardinality(Issued("create_snapshot")) = 1
    /\ Range(Ids(volumes)) = Range(volume_ids)

---------------------------------------------------------------------------
(* C19 *)

\* The calls the workflow can issue: none of them deletes a volume.
Operations ==
    {"stop_instances", "create_tags", "detach_volume", "create_snapshot",
     "create_volume", "attach_volume", "start_instances", "delete_snapshot"}

\* The wait that follows the detach_volume call on v has returned.
ReportedDetached(v) ==
    /\ \E k \in Issued("detach_volume") : calls[k].res = v
    /\ ~(At({"wait_detached"}) /\ volumes[idx].VolumeId = v)

\* C19: the workflow never deletes and never re-attaches an original volume.
\* Every original volume exists in every state, and from the moment its
\* detach is reported, in every later state of the run (completed or
\* aborted), it is unattached and carries the 'device-name' and 'volume-type'
\* tags the workflow wrote: the device it was attached at and its type.
C19_OriginalsKept ==
    /\ \A i \in 1..Len(calls) : calls[i].op \in Operations
    /\ OrigIds \subseteq DOMAIN ec2_volumes
    /\ \A i \in Issued("attach_volume") : calls[i].res \notin OrigIds
    /\ \A v \in OrigUnencrypted :
        ReportedDetached(v) =>
            /\ Available(v)
            /\ \A i \in 1..Len(ec2_instance.BlockDeviceMappings) :
                    ec2_instance.BlockDeviceMappings[i].Ebs.VolumeId # v
            /\ HasTag(ec2_volumes[v].Tags, KeyDeviceName, InitialDevice(v))
            /\ HasTag(ec2_volumes[v].Tags, KeyVolumeType, InitialType(v))

\* A run that went through: both original volumes are left detached, while
\* their replacements are attached.
C19_Witness ==
    /\ pc = "done"
    /\ Cardinality(OrigUnencrypted) = 2
    /\ \A v \in OrigUnencrypted : ReportedDetached(v) /\ Available(v)
    /\ Cardinality(Issued("attach_volume")) = 2

---------------------------------------------------------------------------
(* C20 *)

Started == ec2_instance.State = "running" /\ ec2_instance.StatusOk

\* C20, as stated: every run that completes without error leaves the instance
\* running and passing its status checks.
C20_CompletedRunStarted == pc = "done" => Started

\* C20, for the runs whose pre-check passed: such a run that completes without
\* error issued one stop_instances call and, after it, one start_instances
\* call, and leaves the instance running and passing its status checks,
\* whether the instance was running or stopped before the run.
C20_PassedRunStarted ==
    (pc = "done" /\ pre_checks_passed) =>
        /\ Started
        /\ Cardinality(Issued("stop_instances")) = 1
        /\ Cardinality(Issued("start_instances")) = 1
        /\ \A i \in Issued("stop_instances"), j \in Issued("start_instances") : i < j

\* An instance that was stopped before the run is running after it.
C20_Witness ==
    /\ pc = "done"
    /\ pre_checks_passed
    /\ initial.instance.State = "stopped"
    /\ Started

====
